---- MODULE Spec2Model ----
(***************************************************************************)
(* Model of sources/VOXNOT.py: the VOXNOT orchestration class              *)
(* (_clear_folder, _prepare_dataset, train, _get_files,                    *)
(* make_conversation) over an explicit model of the directories it reads   *)
(* and writes.                                                             *)
(*                                                                         *)
(* A directory is the sequence of its entries in the order os.listdir      *)
(* reports them: the order is arbitrary but a property of the directory,   *)
(* so it only changes when the directory changes.                          *)
(***************************************************************************)
EXTENDS Integers, Sequences, FiniteSets, TLC

\* ------------------------------------------------------------------ bounds
MaxRaw == 2
MaxCalls == 2
MaxFaults == 1
MaxFiles == 2

\* -------------------------------------------------------------- directories
CacheDirs == {"X", "Y"}
RunNames == {"r1", "r2"}

\* The feature shards carry the reserved extension '.pt'.
PT == ".pt"

FileEntry(stem, ext, gen) ==
  [name |-> [stem |-> stem, ext |-> ext], kind |-> "file", gen |-> gen, kids |-> <<>>]

DirEntry(stem, ext, kids) ==
  [name |-> [stem |-> stem, ext |-> ext], kind |-> "dir", gen |-> 0, kids |-> kids]

isfile(e) == e.kind = "file"

splitext(name) == name.ext

SeqToSet(s) == {s[i] : i \in 1..Len(s)}

\* Every path below dir, as the sequence of entry names leading to it.
RECURSIVE AllPaths(_, _)
AllPaths(dir, ents) ==
  UNION {{Append(dir, ents[i].name)} \cup AllPaths(Append(dir, ents[i].name), ents[i].kids)
         : i \in 1..Len(ents)}

\* ------------------------------------------------------------ _clear_folder
\* The loop of _clear_folder over the entries of dir; fail is the set of paths
\* whose os.remove / os.rmdir raises. A subdirectory that is not empty after
\* the recursive call cannot be removed by os.rmdir either.
\* (ClearEntries_StopAtFailure: the loop without the try/except of lines
\* 56-65, so that the first failing removal ends the clearing.)
RECURSIVE ClearEntries_StopAtFailure(_, _, _)
ClearEntries_StopAtFailure(dir, ents, fail) ==
  IF ents = <<>> THEN <<>>
  ELSE LET the_file == Head(ents)
           file_path == Append(dir, the_file.name)
       IN IF isfile(the_file)
          THEN IF file_path \in fail THEN ents
               ELSE ClearEntries_StopAtFailure(dir, Tail(ents), fail)
          ELSE LET left == ClearEntries_StopAtFailure(file_path, the_file.kids, fail)
               IN IF left # <<>> \/ file_path \in fail
                  THEN <<[the_file EXCEPT !.kids = left]>> \o Tail(ents)
                  ELSE ClearEntries_StopAtFailure(dir, Tail(ents), fail)

RECURSIVE ClearEntries(_, _, _)
ClearEntries(dir, ents, fail) ==
  IF ents = <<>> THEN <<>>
  ELSE LET the_file == Head(ents)
           file_path == Append(dir, the_file.name)
           rest == ClearEntries(dir, Tail(ents), fail)
       IN IF isfile(the_file)
          THEN IF file_path \in fail THEN <<the_file>> \o rest ELSE rest
          ELSE LET left == ClearEntries(file_path, the_file.kids, fail)
               IN IF left # <<>> \/ file_path \in fail
                  THEN <<[the_file EXCEPT !.kids = left]>> \o rest
                  ELSE rest

\* (clear_folder_TopLevelOnly: a clearing that removes the regular files
\* directly inside the directory and leaves its subdirectories alone.)
clear_folder_TopLevelOnly(d, fail) ==
  IF d.exists
  THEN [d EXCEPT !.ents =
          SelectSeq(@, LAMBDA e : ~isfile(e) \/ <<e.name>> \in fail)]
  ELSE d

clear_folder(d, fail) ==
  IF d.exists THEN [d EXCEPT !.ents = ClearEntries(<<>>, d.ents, fail)] ELSE d

\* --------------------------------------------------------- _prepare_dataset
IsShard_OtherExt(e) == isfile(e) /\ splitext(e.name) = ".pth"

IsShard(e) == isfile(e) /\ splitext(e.name) = PT

\* Lines 78-84: the scan for a prepared dataset, stopping at the first one.
\* (ScanForShard_OnlyFirst: a scan that looks at the first entry only.)
ScanForShard_OnlyFirst(ents) == ents # <<>> /\ IsShard(Head(ents))

RECURSIVE ScanForShard(_)
ScanForShard(ents) ==
  IF ents = <<>> THEN FALSE
  ELSE IF IsShard(Head(ents)) THEN TRUE
       ELSE ScanForShard(Tail(ents))

\* Line 86.
NeedRebuild_Inverted(delete_last_prepared_data, exists_prepared_datasets) ==
  delete_last_prepared_data = TRUE \/ exists_prepared_datasets = TRUE

NeedRebuild(delete_last_prepared_data, exists_prepared_datasets) ==
  delete_last_prepared_data = TRUE \/ exists_prepared_datasets = FALSE

\* Lines 99-106: one dataset per '.pt' regular file, in listing order.
RECURSIVE ComposeDatasets(_)
ComposeDatasets(ents) ==
  IF ents = <<>> THEN <<>>
  ELSE IF IsShard(Head(ents))
       THEN <<[name |-> Head(ents).name, gen |-> Head(ents).gen]>>
            \o ComposeDatasets(Tail(ents))
       ELSE ComposeDatasets(Tail(ents))

\* Line 104: VOXNOTDataset(path_file_ds, device) deserializes the shard file
\* and raises when it cannot; bad is the set of names of such files. The loop
\* of lines 101-104 ends at the first shard that cannot be loaded.
\* (LoadShards_SkipCorrupt: a loop that leaves such a shard out and goes on.)
RECURSIVE LoadShards_SkipCorrupt(_, _)
LoadShards_SkipCorrupt(ents, bad) ==
  IF ents = <<>> THEN [raised |-> FALSE, datasets |-> <<>>]
  ELSE LET rest == LoadShards_SkipCorrupt(Tail(ents), bad)
       IN IF IsShard(Head(ents)) /\ Head(ents).name \notin bad
          THEN [rest EXCEPT !.datasets =
                  <<[name |-> Head(ents).name, gen |-> Head(ents).gen]>> \o @]
          ELSE rest

LoadShards(ents, bad) ==
  IF \E i \in 1..Len(ents) : IsShard(ents[i]) /\ ents[i].name \in bad
  THEN [raised |-> TRUE, datasets |-> <<>>]
  ELSE [raised |-> FALSE, datasets |-> ComposeDatasets(ents)]

\* The number of records a shard holds is fixed by its content.
ShardLen(s) == (s.name.stem + s.gen) % 3

\* Line 106: torch.utils.data.ConcatDataset. It asserts that the list of
\* datasets is not empty, keeps the cumulative sizes of the datasets, and
\* resolves an index with bisect_right over them.
RECURSIVE cumsum(_)
cumsum(ds) ==
  IF ds = <<>> THEN <<>>
  ELSE LET r == cumsum(SubSeq(ds, 1, Len(ds) - 1))
       IN Append(r, (IF r = <<>> THEN 0 ELSE r[Len(r)]) + ShardLen(ds[Len(ds)]))

bisect_right_Left(a, x) == Cardinality({i \in 1..Len(a) : a[i] < x})

bisect_right(a, x) == Cardinality({i \in 1..Len(a) : a[i] <= x})

ConcatLen(ds) == IF ds = <<>> THEN 0 ELSE cumsum(ds)[Len(ds)]

\* ConcatDataset.__getitem__(idx): the shard and the offset inside it.
ConcatGetItem(ds, idx) ==
  LET dataset_idx == bisect_right(cumsum(ds), idx)
      sample_idx == IF dataset_idx = 0 THEN idx
                    ELSE idx - cumsum(ds)[dataset_idx]
  IN [shard |-> ds[dataset_idx + 1], offset |-> sample_idx]

\* The extraction pipeline writes one shard per raw file into the cache
\* directory: a file of that name is rewritten in place, a new file is
\* listed after the entries already there.
HasName(ents, name) == \E i \in 1..Len(ents) : ents[i].name = name

WriteShard(ents, stem, gen) ==
  LET shard == FileEntry(stem, PT, gen)
  IN IF HasName(ents, shard.name)
     THEN [i \in 1..Len(ents) |->
             IF ents[i].name = shard.name THEN shard ELSE ents[i]]
     ELSE Append(ents, shard)

\* Lines 144-147: shutil.copy2 of model_path to output_dir/{training_name}.pt.
Copy2_FixedName(out, name, path) == [out EXCEPT !["r1"] = path]

Copy2(out, name, path) == [out EXCEPT ![name] = path]

\* Lines 106 and 137-140: where control goes when _prepare_dataset returns.
AfterPrepare_SkipTarget(o, d) ==
  IF o = "prepare" THEN [pc |-> "done", cur |-> d]
  ELSE [pc |-> "configure", cur |-> d]

AfterPrepare(o, d) ==
  IF o = "prepare" THEN [pc |-> "done", cur |-> d]
  ELSE IF d = "X" THEN [pc |-> "prep_scan", cur |-> "Y"]
  ELSE [pc |-> "configure", cur |-> d]

ShardNames(n) == {[stem |-> r, ext |-> PT] : r \in 1..n}

\* ----------------------------------------------------------------- __init__
\* Line 74 looks model_class_name up in globals(), the names of the module:
\* its imports (lines 22-33) and the class itself. Of these VOXNOTBaseModel is
\* a model class, VOXNOTDatasetPreparationTools is a class that is no model
\* (line 94 shows it takes three positional arguments), os is a module.
ModelImplementations == {"VOXNOTBaseModel"}

OtherClasses == {"VOXNOTDatasetPreparationTools"}

NotCallable == {"os"}

Globals == ModelImplementations \cup OtherClasses \cup NotCallable

ClassNames == Globals \cup {"NoSuchModel"}

NotConstructed == [state |-> "new", name |-> "-", model_instance |-> "none", error |-> "none"]

Constructed(name) ==
  [state |-> "constructed", name |-> name, model_instance |-> name, error |-> "none"]

ConstructionFailed(name, error) ==
  [state |-> "failed", name |-> name, model_instance |-> "none", error |-> error]

\* Lines 73-75: the outcomes of VOXNOT(device, model_class_name, ...). The
\* constructor of a class may itself raise.
init(name) ==
  IF name \notin Globals THEN {ConstructionFailed(name, "KeyError")}
  ELSE IF name \in NotCallable THEN {ConstructionFailed(name, "TypeError")}
  ELSE {Constructed(name), ConstructionFailed(name, "raised by the class")}

\* ------------------------------------------------------------------- state
VARIABLES
  dirs,            \* the two cache directories temp_dir/input_ds_X, input_ds_Y
  corpus,          \* number of raw audio files of the corpus behind each cache
  output_dir,      \* output_dir: checkpoint held under each {training_name}.pt
  model,           \* model_instance: training parameters, best checkpoint
  pc,              \* position of the running call
  op,              \* the running top-level call: "prepare" or "train"
  cur,             \* dataset_dir of the running _prepare_dataset
  delete_flag,     \* delete_last_prepared_data
  training_name,
  exists_prepared_datasets,
  todo,            \* raw files the running extraction has not processed yet
  dataset,         \* dataset returned by _prepare_dataset, per cache
  returned,        \* caches whose _prepare_dataset returned in this call
  model_path,      \* local of train, line 143
  calls,           \* number of top-level calls started
  before,          \* the cache directories when the running call started
  out_before,      \* output_dir when the running call started
  failed_rm,       \* per cache, the paths whose removal raised in this call
  failed_at,       \* position at which the running call raised
  rebuilt,         \* caches a rebuild has ever been started in
  last,            \* summary of the previous top-level call
  faults,          \* number of failures injected so far (removals, raises)
  log,             \* the collaborator calls of the running call, in order
  \* make_conversation and _get_files
  cpc,             \* position of the running make_conversation
  query_path,      \* the location given as query_path
  trained_model_path,
  out_path,        \* the location given as out_path
  query_file_list,
  model_file_list,
  model_idx,       \* position of the outer loop in model_file_list
  query_idx,       \* position of the inner loop in query_file_list
  weights,         \* the weights model_instance holds (the file they came from)
  model_name,
  artifacts,       \* the audio files written so far: path, query, weights
  rendered,        \* the vocode calls of the running call, in order
  file_list,       \* the last two results of _get_files called on its own
  \* the object
  self,            \* the VOXNOT object: how its construction ended, model_instance
  corrupt,         \* per cache, the names of the shard files that cannot be deserialized
  input_inside,    \* per cache, whether input_dir is a subdirectory of dataset_dir
  clog,            \* the collaborator calls of the running make_conversation, in order
  threads,         \* make_conversation calls running concurrently: each one's locals
  predicted,       \* their predict calls: caller, model file of the caller, weights used
  prep             \* the two preparations run in any order: each one's locals

trainVars == <<dirs, corpus, output_dir, model, pc, op, cur, delete_flag, training_name,
               exists_prepared_datasets, todo, dataset, returned, model_path, calls,
               before, out_before, failed_rm, failed_at, rebuilt, last, faults, log>>

convVars == <<cpc, query_path, trained_model_path, out_path, query_file_list,
              model_file_list, model_idx, query_idx, weights, model_name, artifacts,
              rendered, file_list>>

cacheAux == <<corrupt, input_inside>>

concVars == <<threads, predicted>>

auxVars == <<self, cacheAux, clog, concVars, prep>>

vars == <<trainVars, convVars, auxVars>>

NoDir == [exists |-> FALSE, ents |-> <<>>]

Dir(ents) == [exists |-> TRUE, ents |-> ents]

OldShards(n) == [i \in 1..n |-> FileEntry(i, PT, 0)]

Junk == FileEntry(0, ".wav", 0)

SubDir == DirEntry(0, PT, <<FileEntry(1, PT, 0)>>)

\* A raw corpus of n audio files placed inside the cache directory: input_dir
\* is then dataset_dir/raw.
RawDirName == [stem |-> 0, ext |-> ""]

RawDir(n) == [name |-> RawDirName, kind |-> "dir", gen |-> 0,
              kids |-> [i \in 1..n |-> FileEntry(i, ".wav", 0)]]

\* The raw files of input_dir, by number: those of the subdirectory raw of
\* the cache directory when the corpus is placed there.
RawFilesIn(ents) ==
  IF \E i \in 1..Len(ents) : ents[i].name = RawDirName
  THEN LET raw == ents[CHOOSE i \in 1..Len(ents) : ents[i].name = RawDirName]
       IN [k \in 1..Len(raw.kids) |-> raw.kids[k].name.stem]
  ELSE <<>>

RawFiles(inside, ents, n) == IF inside THEN RawFilesIn(ents) ELSE [i \in 1..n |-> i]

TopLevelNames(ents) == {ents[i].name : i \in 1..Len(ents)}

\* The cache directories a call may find: absent, empty, holding shards of an
\* earlier preparation, holding only other files and a subdirectory, or both.
InitDirs ==
  {NoDir} \cup {Dir(OldShards(n)) : n \in 0..MaxRaw}
  \cup {Dir(<<Junk, SubDir>>), Dir(OldShards(1) \o <<Junk>>)}

NoParams == [set |-> FALSE, X |-> <<>>, Y |-> <<>>, name |-> "r1"]

NoCall == [op |-> "none", d |-> "X", del |-> FALSE, ok |-> FALSE, at |-> "idle",
           dirs |-> [d \in CacheDirs |-> NoDir]]

NoLocation == [path |-> <<>>, isdir |-> FALSE, ents |-> <<>>]

NoFileList == [called |-> FALSE, loc |-> NoLocation, result |-> <<>>]

InitConversation ==
  /\ cpc = "idle"
  /\ query_path = NoLocation
  /\ trained_model_path = NoLocation
  /\ out_path = NoLocation
  /\ query_file_list = <<>>
  /\ model_file_list = <<>>
  /\ model_idx = 0
  /\ query_idx = 0
  /\ weights = <<>>
  /\ model_name = <<>>
  /\ artifacts = {}
  /\ rendered = <<>>
  /\ file_list = <<NoFileList, NoFileList>>

Callers == {1, 2}

NoThread == [pc |-> "idle", model_file_list |-> <<>>, query_file_list |-> <<>>,
             model_idx |-> 0, query_idx |-> 0, model |-> <<>>]

NoPrep == [pc |-> "idle", exists_prepared_datasets |-> FALSE, todo |-> <<>>]

InitExtra ==
  /\ threads = [t \in Callers |-> NoThread]
  /\ predicted = {}
  /\ prep = [d \in CacheDirs |-> NoPrep]

\* The object after a construction that returned a model.
InitAux ==
  /\ self = Constructed("VOXNOTBaseModel")
  /\ corrupt = [d \in CacheDirs |-> {}]
  /\ input_inside = [d \in CacheDirs |-> FALSE]
  /\ clog = <<>>
  /\ InitExtra

InitRest ==
  /\ output_dir = [n \in RunNames |-> 0]
  /\ model = [params |-> NoParams, best |-> 0]
  /\ pc = "idle"
  /\ op = "none"
  /\ cur = "X"
  /\ delete_flag = FALSE
  /\ training_name = "r1"
  /\ exists_prepared_datasets = FALSE
  /\ todo = <<>>
  /\ dataset = [d \in CacheDirs |-> <<>>]
  /\ returned = {}
  /\ model_path = 0
  /\ calls = 0
  /\ before = dirs
  /\ out_before = output_dir
  /\ failed_rm = [d \in CacheDirs |-> {}]
  /\ failed_at = "idle"
  /\ rebuilt = {}
  /\ last = NoCall
  /\ faults = 0
  /\ log = <<>>

\* The shards a cache directory holds at the start are none, or those an
\* earlier complete preparation of the same corpus left.
LeftByPreparation(d, n) ==
  LET names == {d.ents[i].name : i \in {j \in 1..Len(d.ents) : IsShard(d.ents[j])}}
  IN names = {} \/ names = ShardNames(n)

\* train works on both caches.
Init ==
  /\ dirs \in [CacheDirs -> InitDirs]
  /\ corpus \in [CacheDirs -> 0..MaxRaw]
  /\ \A d \in CacheDirs : LeftByPreparation(dirs[d], corpus[d])
  /\ InitRest
  /\ InitConversation
  /\ InitAux

\* _prepare_dataset called on its own works on one cache.
InitPrep ==
  /\ dirs \in {[d \in CacheDirs |-> IF d = "X" THEN x ELSE NoDir] : x \in InitDirs}
  /\ corpus \in {[d \in CacheDirs |-> IF d = "X" THEN n ELSE 0] : n \in 0..MaxRaw}
  /\ InitRest
  /\ InitConversation
  /\ InitAux

\* ----------------------------------------------------------------- actions
StartCall(o, del, d, name) ==
  /\ self.state = "constructed"
  /\ pc = "idle"
  /\ calls < MaxCalls
  /\ calls' = calls + 1
  /\ op' = o
  /\ delete_flag' = del
  /\ cur' = d
  /\ training_name' = name
  /\ pc' = "prep_scan"
  /\ before' = dirs
  /\ out_before' = output_dir
  /\ dataset' = [x \in CacheDirs |-> <<>>]
  /\ returned' = {}
  /\ failed_rm' = [x \in CacheDirs |-> {}]
  /\ failed_at' = "idle"
  /\ todo' = <<>>
  /\ exists_prepared_datasets' = FALSE
  /\ log' = <<>>
  /\ UNCHANGED <<dirs, corpus, output_dir, model, model_path, rebuilt, last, faults>>
  /\ UNCHANGED <<convVars, auxVars>>

\* A direct call of _prepare_dataset(delete_last_prepared_data, input_dir, dataset_dir).
PrepareCall ==
  \E del \in BOOLEAN : StartCall("prepare", del, "X", training_name)

\* A call of train(delete_last_prepared_data, ..., training_name): line 137 first.
TrainCall ==
  \E del \in BOOLEAN, name \in RunNames : StartCall("train", del, "X", name)

\* Lines 78-84. os.listdir raises when dataset_dir does not exist.
PrepScan ==
  /\ pc = "prep_scan"
  /\ IF dirs[cur].exists
     THEN /\ exists_prepared_datasets' = ScanForShard(dirs[cur].ents)
          /\ pc' = "prep_decide"
          /\ UNCHANGED failed_at
     ELSE /\ pc' = "failed"
          /\ failed_at' = "prepare"
          /\ UNCHANGED exists_prepared_datasets
  /\ UNCHANGED <<dirs, corpus, output_dir, model, op, cur, delete_flag, training_name,
                 todo, dataset, returned, model_path, calls, before, out_before,
                 failed_rm, rebuilt, last, faults, log>>
  /\ UNCHANGED <<convVars, auxVars>>

\* Lines 86-94: the rebuild decision, the clearing (or creation) of
\* dataset_dir, and the start of the extraction run.
PrepDecide ==
  /\ pc = "prep_decide"
  /\ IF NeedRebuild(delete_flag, exists_prepared_datasets)
     THEN \E fail \in SUBSET AllPaths(<<>>, dirs[cur].ents) :
            LET cleared == IF dirs[cur].exists THEN clear_folder(dirs[cur], fail)
                           ELSE Dir(<<>>)
                raw == RawFiles(input_inside[cur], cleared.ents, corpus[cur])
            IN /\ faults + Cardinality(fail) <= MaxFaults
               /\ faults' = faults + Cardinality(fail)
               /\ dirs' = [dirs EXCEPT ![cur] = cleared]
               /\ corrupt' = [corrupt EXCEPT ![cur] = @ \cap TopLevelNames(cleared.ents)]
               /\ corpus' = [corpus EXCEPT ![cur] = Len(raw)]
               /\ failed_rm' = [failed_rm EXCEPT ![cur] = fail]
               /\ todo' = raw
               /\ rebuilt' = rebuilt \cup {cur}
               /\ log' = log \o << <<"decide", cur>>, <<"clear", cur>>, <<"extract", cur>> >>
               /\ pc' = "prep_extract"
     ELSE /\ pc' = "prep_clear_mem"
          /\ log' = Append(log, <<"decide", cur>>)
          /\ UNCHANGED <<dirs, corpus, failed_rm, todo, rebuilt, faults, corrupt>>
  /\ UNCHANGED <<output_dir, model, op, cur, delete_flag, training_name,
                 exists_prepared_datasets, dataset, returned, model_path, calls,
                 before, out_before, failed_at, last>>
  /\ UNCHANGED <<convVars, self, input_inside, clog, concVars, prep>>

\* Line 95, tool.prepare() in progress: the next raw file becomes a shard.
ExtractStep ==
  /\ pc = "prep_extract"
  /\ todo # <<>>
  /\ dirs' = [dirs EXCEPT ![cur].ents = WriteShard(@, Head(todo), calls)]
  /\ corrupt' = [corrupt EXCEPT ![cur] = @ \ {[stem |-> Head(todo), ext |-> PT]}]
  /\ todo' = Tail(todo)
  /\ UNCHANGED <<corpus, output_dir, model, pc, op, cur, delete_flag, training_name,
                 exists_prepared_datasets, dataset, returned, model_path, calls,
                 before, out_before, failed_rm, failed_at, rebuilt, last, faults, log>>
  /\ UNCHANGED <<convVars, self, input_inside, clog, concVars, prep>>

\* Line 95, tool.prepare() raises or is interrupted: the exception leaves
\* _prepare_dataset (and train) at once.
ExtractRaise ==
  /\ pc = "prep_extract"
  /\ faults < MaxFaults
  /\ faults' = faults + 1
  /\ pc' = "failed"
  /\ failed_at' = "prepare"
  /\ UNCHANGED <<dirs, corpus, output_dir, model, op, cur, delete_flag, training_name,
                 exists_prepared_datasets, todo, dataset, returned, model_path, calls,
                 before, out_before, failed_rm, rebuilt, last, log>>
  /\ UNCHANGED <<convVars, auxVars>>

\* Line 95, tool.prepare() returns.
ExtractDone ==
  /\ pc = "prep_extract"
  /\ todo = <<>>
  /\ pc' = "prep_clear_mem"
  /\ UNCHANGED <<dirs, corpus, output_dir, model, op, cur, delete_flag, training_name,
                 exists_prepared_datasets, todo, dataset, returned, model_path, calls,
                 before, out_before, failed_rm, failed_at, rebuilt, last, faults, log>>
  /\ UNCHANGED <<convVars, auxVars>>

\* Line 97.
PrepClearMem ==
  /\ pc = "prep_clear_mem"
  /\ log' = Append(log, <<"clear_mem", cur>>)
  /\ pc' = "prep_compose"
  /\ UNCHANGED <<dirs, corpus, output_dir, model, op, cur, delete_flag, training_name,
                 exists_prepared_datasets, todo, dataset, returned, model_path, calls,
                 before, out_before, failed_rm, failed_at, rebuilt, last, faults>>
  /\ UNCHANGED <<convVars, auxVars>>

\* Lines 99-106, and the return to the caller: a direct call is complete,
\* train goes on to line 138 and then to line 140. The call raises instead
\* when a shard cannot be loaded (line 104) or no shard was found (line 106).
PrepCompose ==
  /\ pc = "prep_compose"
  /\ LET loaded == LoadShards(dirs[cur].ents, corrupt[cur])
     IN IF loaded.raised \/ loaded.datasets = <<>>
        THEN /\ pc' = "failed"
             /\ failed_at' = "prepare"
             /\ log' = Append(log, <<(IF loaded.raised THEN "load_raise" ELSE "concat_raise"), cur>>)
             /\ UNCHANGED <<dataset, returned, cur>>
        ELSE /\ dataset' = [dataset EXCEPT ![cur] = loaded.datasets]
             /\ returned' = returned \cup {cur}
             /\ log' = Append(log, <<"compose", cur>>)
             /\ pc' = AfterPrepare(op, cur).pc
             /\ cur' = AfterPrepare(op, cur).cur
             /\ UNCHANGED failed_at
  /\ UNCHANGED <<dirs, corpus, output_dir, model, op, delete_flag, training_name,
                 exists_prepared_datasets, todo, model_path, calls, before,
                 out_before, failed_rm, rebuilt, last, faults>>
  /\ UNCHANGED <<convVars, auxVars>>

\* Between two calls a shard file of a cache is damaged, so that it can no
\* longer be deserialized.
CorruptShard ==
  /\ pc = "idle"
  /\ calls < MaxCalls
  /\ faults < MaxFaults
  /\ \E d \in CacheDirs : \E i \in 1..Len(dirs[d].ents) :
       /\ IsShard(dirs[d].ents[i])
       /\ dirs[d].ents[i].name \notin corrupt[d]
       /\ corrupt' = [corrupt EXCEPT ![d] = @ \cup {dirs[d].ents[i].name}]
  /\ faults' = faults + 1
  /\ UNCHANGED <<dirs, corpus, output_dir, model, pc, op, cur, delete_flag, training_name,
                 exists_prepared_datasets, todo, dataset, returned, model_path, calls,
                 before, out_before, failed_rm, failed_at, rebuilt, last, log>>
  /\ UNCHANGED <<convVars, self, input_inside, clog, concVars, prep>>

\* Line 140. An object whose model_instance is no model has no
\* set_train_params: the attribute lookup raises.
Configure ==
  /\ pc = "configure"
  /\ IF self.model_instance \in ModelImplementations
     THEN /\ model' = [model EXCEPT !.params =
                         [set |-> TRUE, X |-> dataset["X"], Y |-> dataset["Y"],
                          name |-> training_name]]
          /\ log' = Append(log, <<"set_train_params", "-">>)
          /\ pc' = "model_train"
          /\ UNCHANGED failed_at
     ELSE /\ pc' = "failed"
          /\ failed_at' = "configure"
          /\ UNCHANGED <<model, log>>
  /\ UNCHANGED <<dirs, corpus, output_dir, op, cur, delete_flag, training_name,
                 exists_prepared_datasets, todo, dataset, returned, model_path, calls,
                 before, out_before, failed_rm, rebuilt, last, faults>>
  /\ UNCHANGED <<convVars, auxVars>>

\* Line 141, train() returns: the model holds a new best checkpoint.
ModelTrain ==
  /\ pc = "model_train"
  /\ model' = [model EXCEPT !.best = calls]
  /\ log' = Append(log, <<"train", "-">>)
  /\ pc' = "get_path"
  /\ UNCHANGED <<dirs, corpus, output_dir, op, cur, delete_flag, training_name,
                 exists_prepared_datasets, todo, dataset, returned, model_path, calls,
                 before, out_before, failed_rm, failed_at, rebuilt, last, faults>>
  /\ UNCHANGED <<convVars, auxVars>>

\* Line 141, train() raises.
ModelTrainRaise ==
  /\ pc = "model_train"
  /\ faults < MaxFaults
  /\ faults' = faults + 1
  /\ pc' = "failed"
  /\ failed_at' = "train"
  /\ UNCHANGED <<dirs, corpus, output_dir, model, op, cur, delete_flag, training_name,
                 exists_prepared_datasets, todo, dataset, returned, model_path, calls,
                 before, out_before, failed_rm, rebuilt, last, log>>
  /\ UNCHANGED <<convVars, auxVars>>

\* Line 143.
GetBestPath ==
  /\ pc = "get_path"
  /\ model_path' = model.best
  /\ log' = Append(log, <<"get_last_best_model_path", "-">>)
  /\ pc' = "copy"
  /\ UNCHANGED <<dirs, corpus, output_dir, model, op, cur, delete_flag, training_name,
                 exists_prepared_datasets, todo, dataset, returned, calls, before,
                 out_before, failed_rm, failed_at, rebuilt, last, faults>>
  /\ UNCHANGED <<convVars, auxVars>>

\* Lines 144-147.
CopyCheckpoint ==
  /\ pc = "copy"
  /\ output_dir' = Copy2(output_dir, training_name, model_path)
  /\ log' = Append(log, <<"copy", "-">>)
  /\ pc' = "done"
  /\ UNCHANGED <<dirs, corpus, model, op, cur, delete_flag, training_name,
                 exists_prepared_datasets, todo, dataset, returned, model_path, calls,
                 before, out_before, failed_rm, failed_at, rebuilt, last, faults>>
  /\ UNCHANGED <<convVars, auxVars>>

\* The call is over (returned or raised): control is back with the caller.
Return ==
  /\ pc \in {"done", "failed"}
  /\ last' = [op |-> op, d |-> cur, del |-> delete_flag, ok |-> (pc = "done"),
              at |-> failed_at, dirs |-> dirs]
  /\ pc' = "idle"
  /\ UNCHANGED <<dirs, corpus, output_dir, model, op, cur, delete_flag, training_name,
                 exists_prepared_datasets, todo, dataset, returned, model_path, calls,
                 before, out_before, failed_rm, failed_at, rebuilt, faults, log>>
  /\ UNCHANGED <<convVars, auxVars>>

Next ==
  \/ TrainCall
  \/ CorruptShard
  \/ PrepScan
  \/ PrepDecide
  \/ ExtractStep
  \/ ExtractRaise
  \/ ExtractDone
  \/ PrepClearMem
  \/ PrepCompose
  \/ Configure
  \/ ModelTrain
  \/ ModelTrainRaise
  \/ GetBestPath
  \/ CopyCheckpoint
  \/ Return

Spec == Init /\ [][Next]_vars

NextPrep ==
  \/ PrepareCall
  \/ CorruptShard
  \/ PrepScan
  \/ PrepDecide
  \/ ExtractStep
  \/ ExtractRaise
  \/ ExtractDone
  \/ PrepClearMem
  \/ PrepCompose
  \/ Return

SpecPrep == InitPrep /\ [][NextPrep]_vars

\* _prepare_dataset called with any placement of input_dir: apart from
\* dataset_dir, or the subdirectory raw of dataset_dir.
InitPlace ==
  /\ \E x \in {d \in InitDirs : d.exists}, n \in 1..MaxRaw, inside \in BOOLEAN :
       /\ dirs = [d \in CacheDirs |->
                    IF d = "X"
                    THEN (IF inside THEN Dir(x.ents \o <<RawDir(n)>>) ELSE x)
                    ELSE NoDir]
       /\ corpus = [d \in CacheDirs |-> IF d = "X" THEN n ELSE 0]
       /\ input_inside = [d \in CacheDirs |-> d = "X" /\ inside]
  /\ InitRest
  /\ InitConversation
  /\ self = Constructed("VOXNOTBaseModel")
  /\ corrupt = [d \in CacheDirs |-> {}]
  /\ clog = <<>>
  /\ InitExtra

SpecPlace == InitPlace /\ [][NextPrep]_vars

\* Lines 67-75: VOXNOT(device, model_class_name, hyper_params, prod_mode).
Construct ==
  /\ self.state = "new"
  /\ \E name \in ClassNames : self' \in init(name)
  /\ UNCHANGED <<trainVars, convVars, cacheAux, clog, concVars, prep>>

\* Before the construction: no object, the cache of the source corpus as a
\* train call may find it.
InitCtor ==
  /\ dirs \in {[d \in CacheDirs |-> IF d = "X" THEN x ELSE Dir(<<>>)] : x \in InitDirs}
  /\ corpus \in [CacheDirs -> 1..MaxRaw]
  /\ \A d \in CacheDirs : LeftByPreparation(dirs[d], corpus[d])
  /\ InitRest
  /\ InitConversation
  /\ self = NotConstructed
  /\ corrupt = [d \in CacheDirs |-> {}]
  /\ input_inside = [d \in CacheDirs |-> FALSE]
  /\ clog = <<>>
  /\ InitExtra

NextCtor ==
  \/ Construct
  \/ Next

SpecCtor == InitCtor /\ [][NextCtor]_vars

\* ------------------------------------------- _get_files, make_conversation
\* A path is the sequence of its components, a component (a file or
\* directory name) the sequence of its characters.
Chars == {"a", "_"}

Basenames == {<<c>> : c \in Chars} \cup {<<c, d>> : c \in Chars, d \in Chars}

basename(path) == path[Len(path)]

join(path, name) == Append(path, name)

NamedFile(name) == [name |-> name, kind |-> "file", gen |-> 0, kids |-> <<>>]

NamedDir(name) ==
  [name |-> name, kind |-> "dir", gen |-> 0, kids |-> <<NamedFile(<<"a">>)>>]

\* What the file system holds at a location given to the class: a directory
\* with its listing, or something that is no directory.
DirAt(root, ents) == [path |-> <<root>>, isdir |-> TRUE, ents |-> ents]

FileAt(root, name) == [path |-> <<root, name>>, isdir |-> FALSE, ents |-> <<>>]

\* Listings of up to MaxFiles entries with distinct names, at most one of them
\* a subdirectory (of a one-character name).
Listings ==
  UNION {{l \in [1..n -> {NamedFile(b) : b \in Basenames} \cup {NamedDir(<<c>>) : c \in Chars}] :
            /\ \A i, j \in 1..n : i # j => l[i].name # l[j].name
            /\ Cardinality({i \in 1..n : l[i].kind = "dir"}) <= 1}
         : n \in 0..MaxFiles}

Locations(root) ==
  {DirAt(root, l) : l \in Listings} \cup {FileAt(root, b) : b \in Basenames}

\* Lines 153-155: the loop of _get_files over os.listdir(path).
RECURSIVE ListFiles(_, _)
ListFiles(path, ents) ==
  IF ents = <<>> THEN <<>>
  ELSE (IF isfile(Head(ents)) = TRUE THEN <<join(path, Head(ents).name)>> ELSE <<>>)
       \o ListFiles(path, Tail(ents))

RECURSIVE ListEntries(_, _)
ListEntries(path, ents) ==
  IF ents = <<>> THEN <<>>
  ELSE <<join(path, Head(ents).name)>> \o ListEntries(path, Tail(ents))

\* (get_files_Unfiltered: _get_files without the os.path.isfile test of line 154.)
get_files_Unfiltered(loc) ==
  IF loc.isdir = TRUE THEN ListEntries(loc.path, loc.ents) ELSE <<loc.path>>

\* Lines 149-159.
get_files(loc) ==
  IF loc.isdir = TRUE THEN ListFiles(loc.path, loc.ents) ELSE <<loc.path>>

\* (OutFilePath_Inverted: line 182 with the test of os.path.isdir inverted.)
OutFilePath_Inverted(out, q, name) ==
  IF out.isdir = TRUE THEN out.path
  ELSE join(out.path, basename(q) \o <<"_">> \o name \o <<".wav">>)

\* Line 182.
OutFilePath(out, q, name) ==
  IF out.isdir = FALSE THEN out.path
  ELSE join(out.path, basename(q) \o <<"_">> \o name \o <<".wav">>)

\* Lines 179-184: what is called for one query file, in order, q the query
\* file, w the weights the model instance holds, path the out_file_path.
\* (PairEvents_RenderFirst: the same calls with vocode before predict.)
PairEvents_RenderFirst(q, w, path) ==
  << [ev |-> "get_features", file |-> q, weights |-> w],
     [ev |-> "vocode", file |-> path, weights |-> w],
     [ev |-> "predict", file |-> q, weights |-> w] >>

PairEvents(q, w, path) ==
  << [ev |-> "get_features", file |-> q, weights |-> w],
     [ev |-> "predict", file |-> q, weights |-> w],
     [ev |-> "vocode", file |-> path, weights |-> w] >>

\* Line 184: vocode writes the audio file, replacing a file of that path.
Vocode(files, path, q, w) ==
  {f \in files : f.path # path} \cup {[path |-> path, query |-> q, weights |-> w]}

InitConv ==
  /\ dirs = [d \in CacheDirs |-> NoDir]
  /\ corpus = [d \in CacheDirs |-> 0]
  /\ InitRest
  /\ InitConversation
  /\ InitAux

\* _get_files(path) called on its own; the result of the call before is kept.
GetFilesCall ==
  /\ cpc = "idle"
  /\ ~file_list[1].called
  /\ \E loc \in Locations(<<"q">>) :
       file_list' = <<file_list[2],
                      [called |-> TRUE, loc |-> loc, result |-> get_files(loc)]>>
  /\ UNCHANGED <<cpc, query_path, trained_model_path, out_path, query_file_list,
                 model_file_list, model_idx, query_idx, weights, model_name,
                 artifacts, rendered>>
  /\ UNCHANGED <<trainVars, auxVars>>

\* Lines 169-174: make_conversation(query_path, trained_model_path, out_path)
\* up to the head of the outer loop.
MakeConversation ==
  /\ self.state = "constructed"
  /\ cpc = "idle"
  /\ \E q \in Locations(<<"q">>), m \in Locations(<<"m">>), isdir \in BOOLEAN :
       /\ query_path' = q
       /\ trained_model_path' = m
       /\ out_path' = [path |-> << <<"o">> >>, isdir |-> isdir, ents |-> <<>>]
       /\ query_file_list' = get_files(q)
       /\ model_file_list' = get_files(m)
  /\ model_idx' = 1
  /\ query_idx' = 0
  /\ artifacts' = {}
  /\ rendered' = <<>>
  /\ clog' = <<>>
  /\ cpc' = "load"
  /\ UNCHANGED <<weights, model_name, file_list>>
  /\ UNCHANGED <<trainVars, self, cacheAux, concVars, prep>>

\* Lines 174-176: the next model file is loaded, or the outer loop ends.
LoadWeights ==
  /\ cpc = "load"
  /\ IF model_idx <= Len(model_file_list)
     THEN /\ weights' = model_file_list[model_idx]
          /\ model_name' = basename(model_file_list[model_idx])
          /\ clog' = Append(clog, [ev |-> "load_weights",
                                    file |-> model_file_list[model_idx],
                                    weights |-> model_file_list[model_idx]])
          /\ query_idx' = 1
          /\ cpc' = "pair"
     ELSE /\ cpc' = "done"
          /\ UNCHANGED <<weights, model_name, query_idx, clog>>
  /\ UNCHANGED <<query_path, trained_model_path, out_path, query_file_list,
                 model_file_list, model_idx, artifacts, rendered, file_list>>
  /\ UNCHANGED <<trainVars, self, cacheAux, concVars, prep>>

\* Lines 178-184: features, predict and vocode for the next query file, or the
\* inner loop ends and the outer loop moves on.
ConvertPair ==
  /\ cpc = "pair"
  /\ IF query_idx <= Len(query_file_list)
     THEN LET q == query_file_list[query_idx]
              out_file_path == OutFilePath(out_path, q, model_name)
          IN /\ artifacts' = Vocode(artifacts, out_file_path, q, weights)
             /\ rendered' = Append(rendered,
                              [path |-> out_file_path, query |-> q,
                               model |-> model_file_list[model_idx],
                               weights |-> weights])
             /\ clog' = clog \o PairEvents(q, weights, out_file_path)
             /\ query_idx' = query_idx + 1
             /\ UNCHANGED <<cpc, model_idx>>
     ELSE /\ model_idx' = model_idx + 1
          /\ cpc' = "load"
          /\ UNCHANGED <<artifacts, rendered, query_idx, clog>>
  /\ UNCHANGED <<query_path, trained_model_path, out_path, query_file_list,
                 model_file_list, weights, model_name, file_list>>
  /\ UNCHANGED <<trainVars, self, cacheAux, concVars, prep>>

\* load_weights, get_features, predict or vocode raises: the call ends there.
ConversionRaise ==
  /\ cpc \in {"load", "pair"}
  /\ IF cpc = "load" THEN model_idx <= Len(model_file_list)
     ELSE query_idx <= Len(query_file_list)
  /\ cpc' = "failed"
  /\ UNCHANGED <<query_path, trained_model_path, out_path, query_file_list,
                 model_file_list, model_idx, query_idx, weights, model_name,
                 artifacts, rendered, file_list>>
  /\ UNCHANGED <<trainVars, auxVars>>

NextConv ==
  \/ MakeConversation
  \/ LoadWeights
  \/ ConvertPair
  \/ ConversionRaise

SpecConv == InitConv /\ [][NextConv]_vars

NextFiles == GetFilesCall

\* ------------------------------------ the two preparations in any order
\* Lines 137-138: the cache directory each preparation of train works on,
\* temp_dir/input_ds_X for the source corpus, temp_dir/input_ds_Y for the
\* target corpus.
\* (CachePath_Shared: both preparations given the same directory.)
CachePath_Shared(d) == "X"

CachePath(d) == d

\* The steps of _prepare_dataset (lines 77-106) for the corpus d, the source
\* and the target preparation each at its own position, so that they run
\* source-first, target-first or interleaved.
OrderFrame ==
  /\ UNCHANGED <<output_dir, model, pc, op, cur, training_name,
                 exists_prepared_datasets, todo, model_path, out_before,
                 failed_at, rebuilt, last>>
  /\ UNCHANGED <<convVars, self, input_inside, clog, concVars>>

\* Both preparations are started with the same delete_last_prepared_data.
OrderStart ==
  /\ self.state = "constructed"
  /\ \A d \in CacheDirs : prep[d].pc \in {"idle", "returned", "failed"}
  /\ calls < MaxCalls
  /\ calls' = calls + 1
  /\ delete_flag' \in BOOLEAN
  /\ before' = dirs
  /\ dataset' = [d \in CacheDirs |-> <<>>]
  /\ returned' = {}
  /\ failed_rm' = [d \in CacheDirs |-> {}]
  /\ log' = <<>>
  /\ prep' = [d \in CacheDirs |-> [NoPrep EXCEPT !.pc = "prep_scan"]]
  /\ UNCHANGED <<dirs, corpus, corrupt, faults>>
  /\ OrderFrame

\* Lines 78-84.
OrderScan(d) ==
  /\ prep[d].pc = "prep_scan"
  /\ IF dirs[CachePath(d)].exists
     THEN prep' = [prep EXCEPT ![d].exists_prepared_datasets =
                                 ScanForShard(dirs[CachePath(d)].ents),
                               ![d].pc = "prep_decide"]
     ELSE prep' = [prep EXCEPT ![d].pc = "failed"]
  /\ UNCHANGED <<dirs, corpus, corrupt, faults, calls, delete_flag, before, dataset,
                 returned, failed_rm, log>>
  /\ OrderFrame

\* Lines 86-94.
OrderDecide(d) ==
  /\ prep[d].pc = "prep_decide"
  /\ IF NeedRebuild(delete_flag, prep[d].exists_prepared_datasets)
     THEN \E fail \in SUBSET AllPaths(<<>>, dirs[CachePath(d)].ents) :
            LET cleared == clear_folder(dirs[CachePath(d)], fail)
                raw == RawFiles(input_inside[d], cleared.ents, corpus[d])
            IN /\ faults + Cardinality(fail) <= MaxFaults
               /\ faults' = faults + Cardinality(fail)
               /\ dirs' = [dirs EXCEPT ![CachePath(d)] = cleared]
               /\ corrupt' = [corrupt EXCEPT ![CachePath(d)] =
                                 @ \cap TopLevelNames(cleared.ents)]
               /\ corpus' = [corpus EXCEPT ![d] = Len(raw)]
               /\ failed_rm' = [failed_rm EXCEPT ![d] = fail]
               /\ prep' = [prep EXCEPT ![d].todo = raw, ![d].pc = "prep_extract"]
               /\ log' = Append(log, <<"extract", d>>)
     ELSE /\ prep' = [prep EXCEPT ![d].pc = "prep_compose"]
          /\ UNCHANGED <<dirs, corrupt, corpus, failed_rm, faults, log>>
  /\ UNCHANGED <<calls, delete_flag, before, dataset, returned>>
  /\ OrderFrame

\* Line 95: the next raw file becomes a shard; after the last one
\* tool.prepare() returns and line 97 follows.
OrderExtract(d) ==
  /\ prep[d].pc = "prep_extract"
  /\ IF prep[d].todo # <<>>
     THEN /\ dirs' = [dirs EXCEPT ![CachePath(d)].ents =
                         WriteShard(@, Head(prep[d].todo), calls)]
          /\ corrupt' = [corrupt EXCEPT ![CachePath(d)] =
                            @ \ {[stem |-> Head(prep[d].todo), ext |-> PT]}]
          /\ prep' = [prep EXCEPT ![d].todo = Tail(@)]
     ELSE /\ prep' = [prep EXCEPT ![d].pc = "prep_compose"]
          /\ UNCHANGED <<dirs, corrupt>>
  /\ UNCHANGED <<corpus, faults, calls, delete_flag, before, dataset, returned,
                 failed_rm, log>>
  /\ OrderFrame

\* Lines 99-106.
OrderCompose(d) ==
  /\ prep[d].pc = "prep_compose"
  /\ LET loaded == LoadShards(dirs[CachePath(d)].ents, corrupt[CachePath(d)])
     IN IF loaded.raised \/ loaded.datasets = <<>>
        THEN /\ prep' = [prep EXCEPT ![d].pc = "failed"]
             /\ UNCHANGED <<dataset, returned, log>>
        ELSE /\ dataset' = [dataset EXCEPT ![d] = loaded.datasets]
             /\ returned' = returned \cup {d}
             /\ log' = Append(log, <<"compose", d>>)
             /\ prep' = [prep EXCEPT ![d].pc = "returned"]
  /\ UNCHANGED <<dirs, corpus, corrupt, faults, calls, delete_flag, before, failed_rm>>
  /\ OrderFrame

NextOrder ==
  \/ OrderStart
  \/ \E d \in CacheDirs :
       \/ OrderScan(d)
       \/ OrderDecide(d)
       \/ OrderExtract(d)
       \/ OrderCompose(d)

SpecOrder == Init /\ [][NextOrder]_vars

\* --------------------------- make_conversation called from several threads
\* Two callers run make_conversation on the same object; the class takes no
\* lock, so their calls of load_weights, get_features, predict and vocode on
\* the one model_instance interleave in any order.
ConcLocations(root) ==
  {FileAt(root, <<c>>) : c \in Chars}
  \cup {DirAt(root, <<NamedFile(<<"a">>), NamedFile(<<"_">>)>>)}

\* What a step of one caller leaves alone.
ConcFrame ==
  /\ UNCHANGED <<cpc, query_path, trained_model_path, out_path, query_file_list,
                 model_file_list, model_idx, query_idx, model_name, artifacts,
                 rendered, file_list>>
  /\ UNCHANGED <<trainVars, self, cacheAux, clog, prep>>

\* Lines 169-174 for caller t.
ConcStart(t) ==
  /\ self.state = "constructed"
  /\ threads[t].pc = "idle"
  /\ \E q \in ConcLocations(<<"q">>), m \in ConcLocations(<<"m">>) :
       threads' = [threads EXCEPT ![t] =
                     [pc |-> "load", model_file_list |-> get_files(m),
                      query_file_list |-> get_files(q),
                      model_idx |-> 1, query_idx |-> 0, model |-> <<>>]]
  /\ UNCHANGED <<predicted, weights>>
  /\ ConcFrame

\* Lines 174-176 for caller t: load_weights replaces the weights of the
\* shared model instance.
ConcLoadWeights(t) ==
  /\ threads[t].pc = "load"
  /\ LET me == threads[t]
     IN IF me.model_idx <= Len(me.model_file_list)
        THEN /\ weights' = me.model_file_list[me.model_idx]
             /\ threads' = [threads EXCEPT ![t].model = me.model_file_list[me.model_idx],
                                            ![t].query_idx = 1,
                                            ![t].pc = "features"]
        ELSE /\ threads' = [threads EXCEPT ![t].pc = "done"]
             /\ UNCHANGED weights
  /\ UNCHANGED predicted
  /\ ConcFrame

\* Lines 178-179 for caller t: the next query file, or the end of the inner loop.
ConcGetFeatures(t) ==
  /\ threads[t].pc = "features"
  /\ LET me == threads[t]
     IN IF me.query_idx <= Len(me.query_file_list)
        THEN threads' = [threads EXCEPT ![t].pc = "predict"]
        ELSE threads' = [threads EXCEPT ![t].model_idx = @ + 1, ![t].pc = "load"]
  /\ UNCHANGED <<predicted, weights>>
  /\ ConcFrame

\* Line 180 for caller t: predict runs on the weights the model instance holds.
ConcPredict(t) ==
  /\ threads[t].pc = "predict"
  /\ predicted' = predicted \cup
       {[caller |-> t, model |-> threads[t].model, weights |-> weights]}
  /\ threads' = [threads EXCEPT ![t].pc = "vocode"]
  /\ UNCHANGED weights
  /\ ConcFrame

\* Lines 182-184 for caller t.
ConcVocode(t) ==
  /\ threads[t].pc = "vocode"
  /\ threads' = [threads EXCEPT ![t].query_idx = @ + 1, ![t].pc = "features"]
  /\ UNCHANGED <<predicted, weights>>
  /\ ConcFrame

NextConc ==
  \E t \in Callers :
    \/ ConcStart(t)
    \/ ConcLoadWeights(t)
    \/ ConcGetFeatures(t)
    \/ ConcPredict(t)
    \/ ConcVocode(t)

SpecConc == InitConv /\ [][NextConc]_vars

SpecFiles == InitConv /\ [][NextFiles]_vars

\* ------------------------------------------------- vocabulary of the claims
Count(ev, d) == Cardinality({i \in 1..Len(log) : log[i] = <<ev, d>>})

\* Position of the first such call in the log of the running call, 0 if none.
Pos(ev, d) ==
  IF \E i \in 1..Len(log) : log[i] = <<ev, d>>
  THEN CHOOSE i \in 1..Len(log) :
         log[i] = <<ev, d>> /\ \A j \in 1..(i - 1) : log[j] # <<ev, d>>
  ELSE 0

\* The '.pt' regular files directly inside a directory, as handed to a dataset.
ShardsDirectlyIn(ents) ==
  {[name |-> ents[i].name, gen |-> ents[i].gen] :
     i \in {j \in 1..Len(ents) : ents[j].kind = "file" /\ ents[j].name.ext = PT}}

HoldsValidCache(d) == d.exists /\ ShardsDirectlyIn(d.ents) # {}

BuiltFrom(ds, shards) == SeqToSet(ds) = shards /\ Len(ds) = Cardinality(shards)

\* Entries (at any depth) that the running call did not write, by path.
RECURSIVE OldPaths(_, _)
OldPaths(dir, ents) ==
  UNION {(IF ents[i].gen # calls THEN {Append(dir, ents[i].name)} ELSE {})
           \cup OldPaths(Append(dir, ents[i].name), ents[i].kids)
         : i \in 1..Len(ents)}

IsPrefix(p, q) == Len(p) <= Len(q) /\ SubSeq(q, 1, Len(p)) = p

\* A complete shard set of a corpus of n raw files: every shard, one generation.
ContainsCompleteSet(shards, n) ==
  \E g \in 0..MaxCalls :
    \A name \in ShardNames(n) : [name |-> name, gen |-> g] \in shards

PrepareReturned(d) == d \in returned

\* ------------------------------------------------------------------ claims

\* C1: when the cache directory already holds a valid cache (a '.pt' regular
\* file directly inside it) and delete_last_prepared_data is False, a
\* _prepare_dataset that returned has cleared nothing and extracted nothing,
\* the directory is as it was before the call, and the dataset returned is
\* built from exactly the shards that were there.
C1_ValidCacheReused ==
  \A d \in CacheDirs :
    (PrepareReturned(d) /\ delete_flag = FALSE /\ HoldsValidCache(before[d]))
      => /\ dirs[d] = before[d]
         /\ Count("clear", d) = 0
         /\ Count("extract", d) = 0
         /\ BuiltFrom(dataset[d], ShardsDirectlyIn(before[d].ents))

C1_Witness ==
  /\ pc = "done" /\ op = "prepare" /\ delete_flag = FALSE
  /\ PrepareReturned("X")
  /\ HoldsValidCache(before["X"])
  /\ Len(before["X"].ents) > Cardinality(ShardsDirectlyIn(before["X"].ents))
  /\ Len(dataset["X"]) > 0

\* The second of two _prepare_dataset calls in a row on one cache directory,
\* both with delete_last_prepared_data False, the first having returned.
SecondPrepareReturned ==
  /\ pc = "done" /\ op = "prepare" /\ delete_flag = FALSE
  /\ last.op = "prepare" /\ last.ok /\ last.del = FALSE /\ last.d = cur

\* C2: for every corpus and every initial state of the cache directory, the
\* second of two calls with delete_last_prepared_data False, the first having
\* returned, runs no extraction and leaves the shard set the first call left.
\* (A call returns only when it found a shard: line 106 raises otherwise.)
C2_SecondCallExtractsNothing ==
  SecondPrepareReturned
    => Count("extract", cur) = 0 /\ dirs[cur] = last.dirs[cur]

C2_Witness ==
  /\ SecondPrepareReturned /\ corpus[cur] > 0
  /\ cur \in rebuilt
  /\ \E s \in SeqToSet(dataset[cur]) : s.gen = 1

\* C3 as claimed: a _prepare_dataset with delete_last_prepared_data True that
\* returned has left nothing of what was there before, has run extraction
\* exactly once, and returns only shards that this extraction wrote, whether
\* or not removals failed.
C3_ClearedAndRebuilt ==
  \A d \in CacheDirs :
    (PrepareReturned(d) /\ delete_flag = TRUE)
      => /\ OldPaths(<<>>, dirs[d].ents) = {}
         /\ Count("extract", d) = 1
         /\ \A s \in SeqToSet(dataset[d]) : s.gen = calls

\* C3 amended: such a call has attempted the clearing once and run extraction
\* exactly once; what is left of the earlier contents is only entries whose
\* removal failed (and the subdirectories leading to them), and the dataset
\* returned holds only shards written by this extraction and earlier '.pt'
\* files whose removal failed.
C3_ClearedBestEffort ==
  \A d \in CacheDirs :
    (PrepareReturned(d) /\ delete_flag = TRUE)
      => /\ Count("clear", d) = 1
         /\ Count("extract", d) = 1
         /\ Pos("clear", d) < Pos("extract", d)
         /\ \A p \in OldPaths(<<>>, dirs[d].ents) :
              \E q \in failed_rm[d] : IsPrefix(p, q)
         /\ \A s \in SeqToSet(dataset[d]) :
              s.gen = calls \/ <<s.name>> \in failed_rm[d]
         /\ \A name \in ShardNames(corpus[d]) :
              [name |-> name, gen |-> calls] \in SeqToSet(dataset[d])

C3_Witness ==
  /\ pc = "done" /\ op = "prepare" /\ delete_flag = TRUE
  /\ PrepareReturned("X")
  /\ failed_rm["X"] # {}
  /\ \E s \in SeqToSet(dataset["X"]) : s.gen # calls
  /\ \E s \in SeqToSet(dataset["X"]) : s.gen = calls
  /\ Len(before["X"].ents) > Len(dirs["X"].ents) - corpus["X"]

\* C4 as claimed: between calls, a cache directory in which a rebuild was ever
\* started is empty or contains a complete shard set of its corpus.
C4_EmptyOrComplete ==
  pc = "idle"
    => \A d \in rebuilt :
         \/ dirs[d].ents = <<>>
         \/ ContainsCompleteSet(ShardsDirectlyIn(dirs[d].ents), corpus[d])

\* A train call with delete_last_prepared_data False that follows a train call
\* which failed during dataset preparation, at the point where
\* set_train_params has just been handed the datasets.
RetrainConfigured ==
  /\ op = "train" /\ delete_flag = FALSE /\ pc = "model_train"
  /\ last.op = "train" /\ ~last.ok /\ last.at = "prepare"

\* C5 as claimed: such a call re-ran extraction for every corpus whose cache
\* did not hold a complete shard set, for no corpus (of at least one raw file)
\* whose cache was complete, and the datasets handed over are composed from
\* complete shard sets.
C5_RetrainRebuildsIncomplete ==
  RetrainConfigured
    => \A d \in CacheDirs :
         LET complete ==
               ContainsCompleteSet(ShardsDirectlyIn(before[d].ents), corpus[d])
         IN /\ ~complete => Count("extract", d) = 1
            /\ (complete /\ corpus[d] > 0) => Count("extract", d) = 0
            /\ ContainsCompleteSet(SeqToSet(dataset[d]), corpus[d])

FilesOf(out) == {n \in RunNames : out[n] # 0}

TrainOrder ==
  Pos("copy", "-") # 0
    => /\ 0 < Pos("train", "-")
       /\ Pos("train", "-") < Pos("get_last_best_model_path", "-")
       /\ Pos("get_last_best_model_path", "-") < Pos("copy", "-")

TrainRaisedPublishesNothing ==
  (pc = "failed" /\ failed_at = "train")
    => Count("copy", "-") = 0 /\ output_dir = out_before

\* C8 as claimed: the checkpoint is copied only after train() returned, it is
\* the one get_last_best_model_path() names after that train(), a successful
\* run adds exactly one file to output_dir, and a run whose train() raised
\* publishes nothing.
C8_PublishAddsOneFile ==
  op = "train"
    => /\ TrainOrder
       /\ TrainRaisedPublishesNothing
       /\ pc = "done"
            => /\ output_dir[training_name] = model.best /\ model.best = calls
               /\ Cardinality(FilesOf(output_dir))
                    = Cardinality(FilesOf(out_before)) + 1

\* C8 amended: as claimed, except that a successful run writes exactly one
\* file of output_dir, {training_name}.pt, creating it or replacing the file
\* of that name, and leaves every other file of output_dir as it was.
C8_PublishWritesOneFile ==
  op = "train"
    => /\ TrainOrder
       /\ TrainRaisedPublishesNothing
       /\ pc = "done"
            => /\ output_dir[training_name] = model.best /\ model.best = calls
               /\ \A n \in RunNames \ {training_name} :
                    output_dir[n] = out_before[n]
               /\ FilesOf(output_dir) = FilesOf(out_before) \cup {training_name}

C8_Witness ==
  /\ op = "train" /\ pc = "done"
  /\ FilesOf(out_before) # {}
  /\ training_name \notin FilesOf(out_before)
  /\ output_dir[training_name] = calls

\* C9: set_train_params is invoked only after the source and then the target
\* preparation returned; when a preparation fails, none of set_train_params,
\* train(), get_last_best_model_path() or the copy is invoked in that run.
C9_ConfigureAfterBothPrepared ==
  op = "train"
    => /\ Pos("set_train_params", "-") # 0
            => /\ returned = CacheDirs
               /\ 0 < Pos("compose", "X")
               /\ Pos("compose", "X") < Pos("compose", "Y")
               /\ Pos("compose", "Y") < Pos("set_train_params", "-")
               /\ Count("set_train_params", "-") = 1
       /\ (pc = "failed" /\ failed_at = "prepare")
            => /\ Count("set_train_params", "-") = 0
               /\ Count("train", "-") = 0
               /\ Count("get_last_best_model_path", "-") = 0
               /\ Count("copy", "-") = 0
               /\ output_dir = out_before

C9_Witness ==
  /\ op = "train" /\ pc = "failed" /\ failed_at = "prepare"
  /\ returned = {"X"}
  /\ Count("extract", "Y") = 1

Pairs == (1..Len(model_file_list)) \X (1..Len(query_file_list))

\* The name the output path rule gives the artifact of a (model, query) pair.
PairPath(m, q) ==
  join(out_path.path, basename(q) \o <<"_">> \o basename(m) \o <<".wav">>)

\* C6 as claimed: with out_path an existing directory, a make_conversation
\* that completes has written exactly M*Q files with pairwise distinct names,
\* one per (model, query) pair, each at out_path/{basename(query)}_{basename(model)}.wav.
C6_OneFilePerPair ==
  (cpc = "done" /\ out_path.isdir)
    => /\ Cardinality(artifacts) = Len(model_file_list) * Len(query_file_list)
       /\ \A p \in Pairs :
            [path |-> PairPath(model_file_list[p[1]], query_file_list[p[2]]),
             query |-> query_file_list[p[2]],
             weights |-> model_file_list[p[1]]] \in artifacts

\* C7: with out_path not an existing directory, every pair of a completed
\* make_conversation was rendered to out_path itself, and what is at out_path
\* afterwards is the one artifact of the last pair (last model, last query).
C7_SinglePathLastPairWins ==
  (cpc = "done" /\ ~out_path.isdir
     /\ Len(model_file_list) > 0 /\ Len(query_file_list) > 0)
    => /\ Len(rendered) = Len(model_file_list) * Len(query_file_list)
       /\ \A i \in 1..Len(rendered) : rendered[i].path = out_path.path
       /\ artifacts =
            {[path |-> out_path.path,
              query |-> query_file_list[Len(query_file_list)],
              weights |-> model_file_list[Len(model_file_list)]]}

C7_Witness ==
  /\ cpc = "done" /\ ~out_path.isdir
  /\ Len(model_file_list) > 1 /\ Len(query_file_list) > 1
  /\ Len(rendered) > 1
  /\ Cardinality(artifacts) = 1

\* Position of a joined path in the listing of the directory it was joined to.
ListedAt(loc, path) == CHOOSE i \in 1..Len(loc.ents) : join(loc.path, loc.ents[i].name) = path

GetFilesAsSpecified(c) ==
  IF c.loc.isdir
  THEN LET regular == {join(c.loc.path, c.loc.ents[i].name) :
                         i \in {j \in 1..Len(c.loc.ents) : c.loc.ents[j].kind = "file"}}
       IN /\ SeqToSet(c.result) = regular
          /\ Len(c.result) = Cardinality(regular)
          /\ \A i, j \in 1..Len(c.result) :
               i < j => ListedAt(c.loc, c.result[i]) < ListedAt(c.loc, c.result[j])
  ELSE c.result = <<c.loc.path>>

\* C10: _get_files of a directory returns exactly the regular files directly
\* inside it, each once and joined with the directory path, in listing order,
\* the same on every call while the directory is unchanged; of anything else
\* it returns the one-element list of the path.
C10_GetFilesDirectRegularFiles ==
  /\ \A k \in 1..2 : file_list[k].called => GetFilesAsSpecified(file_list[k])
  /\ (file_list[1].called /\ file_list[2].called /\ file_list[1].loc = file_list[2].loc)
       => file_list[1].result = file_list[2].result

C10_Witness ==
  /\ file_list[1].called /\ file_list[2].called
  /\ file_list[1].loc = file_list[2].loc
  /\ file_list[2].loc.isdir
  /\ Len(file_list[2].result) > 0
  /\ Len(file_list[2].result) < Len(file_list[2].loc.ents)

\* C11 as claimed: a construction with a model class name that is not a known
\* model implementation has failed, has created no model instance, and no
\* train step has run on the object.
C11_UnknownNameFailsFast ==
  (self.state # "new" /\ self.name \notin ModelImplementations)
    => /\ self.state = "failed"
       /\ self.model_instance = "none"
       /\ calls = 0
       /\ dirs = before

\* The records of the '.pt' regular files directly inside a directory, shard
\* after shard in listing order, each with its offset inside its shard.
RECURSIVE FlatRecords(_)
FlatRecords(ents) ==
  IF ents = <<>> THEN <<>>
  ELSE (IF Head(ents).kind = "file" /\ Head(ents).name.ext = PT
        THEN [o \in 1..ShardLen(Head(ents)) |->
                [shard |-> [name |-> Head(ents).name, gen |-> Head(ents).gen],
                 offset |-> o - 1]]
        ELSE <<>>)
       \o FlatRecords(Tail(ents))

\* C12: the dataset a _prepare_dataset returned has as many entries as the
\* shard files of the directory hold records together, every global index
\* resolves to the record at the right offset of the right shard, the shards
\* being concatenated in listing order, and every '.pt' regular file of the
\* directory is included exactly once.
C12_ConcatIndexSpace ==
  \A d \in CacheDirs :
    PrepareReturned(d)
      => LET flat == FlatRecords(dirs[d].ents)
         IN /\ ConcatLen(dataset[d]) = Len(flat)
            /\ \A i \in 0..(Len(flat) - 1) : ConcatGetItem(dataset[d], i) = flat[i + 1]
            /\ BuiltFrom(dataset[d], ShardsDirectlyIn(dirs[d].ents))

C12_Witness ==
  /\ pc = "done" /\ op = "prepare" /\ PrepareReturned("X")
  /\ Len(dataset["X"]) >= 2
  /\ ConcatLen(dataset["X"]) >= 2
  /\ Len(dirs["X"].ents) > Len(dataset["X"])

\* Some shard file of the cache being prepared cannot be deserialized.
HoldsCorruptShard(d) ==
  \E i \in 1..Len(dirs[d].ents) :
    IsShard(dirs[d].ents[i]) /\ dirs[d].ents[i].name \in corrupt[d]

\* C13: when a shard file of the cache directory cannot be deserialized, the
\* composition of lines 99-106 raises, hands no dataset (not even a partial
\* one) to the caller, and leaves the files of the cache directories as they
\* were.
C13_LoadFailureAborts ==
  [][(pc = "prep_compose" /\ HoldsCorruptShard(cur))
       => /\ pc' = "failed"
          /\ dataset' = dataset
          /\ dataset'[cur] = <<>>
          /\ returned' = returned
          /\ dirs' = dirs]_vars

C13_Witness ==
  /\ pc = "failed" /\ Count("load_raise", cur) = 1
  /\ HoldsCorruptShard(cur)
  /\ Len(ComposeDatasets(dirs[cur].ents)) >= 2
  /\ dataset[cur] = <<>>
  /\ cur \notin returned

\* C14 as claimed: whatever the placement of the raw corpus directory relative
\* to the cache directory, no step of a preparation changes the contents of
\* the raw corpus directory.
C14_RawCorpusUntouched ==
  [][corpus' = corpus]_vars

\* C15 as claimed: a _prepare_dataset whose cache directory did not exist has
\* passed the rebuild decision without error, created the directory and run
\* the extraction into it, and when it returned, returned the dataset of the
\* shards just written; it never ended at the scan of the absent directory.
C15_AbsentDirCreated ==
  (op = "prepare" /\ pc \in {"done", "failed"} /\ ~before[cur].exists)
    => /\ Count("decide", cur) = 1
       /\ Count("extract", cur) = 1
       /\ dirs[cur].exists
       /\ pc = "done" => \A s \in SeqToSet(dataset[cur]) : s.gen = calls

\* C16 as claimed: when a call has ended, returned or raised, every
\* preparation of it that reached the rebuild decision was followed by a
\* clear_mem, also one whose extraction raised.
C16_ReclaimWinOrLose ==
  pc \in {"done", "failed"}
    => \A d \in CacheDirs :
         Count("decide", d) = 1
           => Count("clear_mem", d) = 1 /\ Pos("decide", d) < Pos("clear_mem", d)

\* The calls one model file m stands for: its load, then for every query file
\* in list order features, predict and rendering, all on the weights of m.
RECURSIVE CallsForQueries(_, _)
CallsForQueries(m, queries) ==
  IF queries = <<>> THEN <<>>
  ELSE << [ev |-> "get_features", file |-> Head(queries), weights |-> m],
          [ev |-> "predict", file |-> Head(queries), weights |-> m],
          [ev |-> "vocode",
           file |-> (IF out_path.isdir
                     THEN PairPath(m, Head(queries)) ELSE out_path.path),
           weights |-> m] >>
       \o CallsForQueries(m, Tail(queries))

RECURSIVE CallsForModels(_, _)
CallsForModels(models, queries) ==
  IF models = <<>> THEN <<>>
  ELSE <<[ev |-> "load_weights", file |-> Head(models), weights |-> Head(models)]>>
       \o CallsForQueries(Head(models), queries)
       \o CallsForModels(Tail(models), queries)

LoadsOf(m) == Cardinality({i \in 1..Len(clog) : clog[i].ev = "load_weights" /\ clog[i].file = m})

\* C17: within one make_conversation the calls made so far are the beginning
\* of: for each model file in list order its load, then for each query file in
\* list order features, predict, render, on the weights of that model file; a
\* call that completed has made all of them, each model file loaded once.
C17_LoadThenConvertInOrder ==
  cpc # "idle"
    => /\ IsPrefix(clog, CallsForModels(model_file_list, query_file_list))
       /\ cpc = "done"
            => /\ clog = CallsForModels(model_file_list, query_file_list)
               /\ \A i \in 1..Len(model_file_list) : LoadsOf(model_file_list[i]) = 1

C17_Witness ==
  /\ cpc = "done"
  /\ Len(model_file_list) >= 2 /\ Len(query_file_list) >= 2
  /\ Len(clog) = 14

\* C18: the clearing of an existing cache directory (lines 89-90) does not
\* raise whichever removals fail; afterwards the directory exists and holds of
\* its earlier entries, at every depth, exactly those whose removal failed and
\* the subdirectories leading to them (so every other entry was removed, also
\* those listed after a failure), none at all when no removal failed; and the
\* extraction run follows.
C18_ClearingNeverRaises ==
  [][(pc = "prep_decide" /\ dirs[cur].exists
        /\ NeedRebuild(delete_flag, exists_prepared_datasets))
       => /\ pc' = "prep_extract"
          /\ dirs'[cur].exists
          /\ AllPaths(<<>>, dirs'[cur].ents)
               = {p \in AllPaths(<<>>, dirs[cur].ents) :
                    \E q \in failed_rm'[cur] : IsPrefix(p, q)}
          /\ failed_rm'[cur] = {} => dirs'[cur].ents = <<>>
          /\ Len(log') = Len(log) + 3
          /\ log'[Len(log')] = <<"extract", cur>>]_vars

C18_Witness ==
  /\ pc = "prep_extract" /\ Len(todo) = corpus[cur]
  /\ failed_rm[cur] # {}
  /\ Len(before[cur].ents) >= 2
  /\ dirs[cur].ents = <<before[cur].ents[1]>>

\* C19 as claimed: with two make_conversation calls running concurrently on
\* one object, every predict of a call runs on the weights that call loaded
\* last, never on weights the other call loaded in between.
C19_LoadThenPredictAtomic ==
  \A p \in predicted : p.weights = p.model

\* What one preparation run alone makes of a cache directory: the directory
\* as it was when nothing is rebuilt, otherwise what the clearing left of it
\* followed by the shards of the corpus, of this run.
RECURSIVE WriteAll(_, _, _)
WriteAll(ents, raw, gen) ==
  IF raw = <<>> THEN ents
  ELSE WriteAll(WriteShard(ents, Head(raw), gen), Tail(raw), gen)

PreparedAlone(dir, n, del, fail, gen) ==
  IF del \/ ShardsDirectlyIn(dir.ents) = {}
  THEN Dir(WriteAll(ClearEntries(<<>>, dir.ents, fail), [i \in 1..n |-> i], gen))
  ELSE dir

\* C20: when the source and the target preparation, run source-first,
\* target-first or interleaved, have both returned, each cache directory is
\* what its preparation run alone makes of it, and each dataset is built from
\* the shards of its own directory: the outcome does not depend on the order.
C20_OrderInsensitive ==
  (\A d \in CacheDirs : prep[d].pc = "returned")
    => \A d \in CacheDirs :
         /\ dirs[d] = PreparedAlone(before[d], corpus[d], delete_flag, failed_rm[d], calls)
         /\ BuiltFrom(dataset[d], ShardsDirectlyIn(dirs[d].ents))
         /\ dataset[d] = ComposeDatasets(
                            PreparedAlone(before[d], corpus[d], delete_flag,
                                          failed_rm[d], calls).ents)

C20_Witness ==
  /\ \A d \in CacheDirs : prep[d].pc = "returned"
  /\ Pos("extract", "X") # 0 /\ Pos("extract", "Y") # 0
  /\ Pos("extract", "X") < Pos("compose", "Y")
  /\ Pos("compose", "Y") < Pos("compose", "X")

====
